---- MODULE Spec2Model ----
(***************************************************************************)
(* The "Analyze Video" pipeline of app.py: download -> authenticate ->     *)
(* upload -> wait for indexing -> fetch insights, as executed by several   *)
(* script runs (browser sessions) of one Streamlit process.  The three     *)
(* functions decorated with st.cache share one process-wide memo table     *)
(* each; the remote service and the downloader are the environment.        *)
(***************************************************************************)
EXTENDS Integers, Sequences, FiniteSets, TLC

\* ----------------------------------------------------------------- bounds
\* Status checks one run may issue before the model stops following it.
MaxPolls == 3
\* Items of a section handed to build_df, and time instances of an item.
MaxItems == 2
MaxInst == 2

\* ------------------------------------------------------- program constants
\* time.sleep(5) in wait_for_indexing.
PollInterval == 5

\* Two script runs (two sessions pressing the button) of the one server
\* process; they interleave at every blocking call.
Runs == {1, 2}

\* The text input: empty, or one of three videos.  urlA and urlB are two
\* different videos that carry the same title.
NoUrl == ""
Urls == {"urlA", "urlB", "urlC"}

\* %(title)s of the video behind a URL, as extract_info reports it.
Title(u) == IF u = "urlC" THEN "other" ELSE "same"

\* ydl.prepare_filename(info) under outtmpl DOWNLOAD_FOLDER/%(title)s.%(ext)s
PrepareFilename(u) == <<"downloads", Title(u), "mp4">>

NoFile == <<>>
NoToken == 0
NoVideo == 0
NoInsights == [job |-> 0, fetchedBy |-> 0]

\* The "state" field of an index response; NoState is a response without it
\* (resp.json().get("state") is None).
NoState == "NoState"
StatusValues == {"Uploaded", "Processing", "Processed", "Failed", NoState}

\* The steps of the handler, named by the controller state in which each
\* runs, in the order of the handler's statements.
Steps == {"Fetching", "Authenticating", "Uploading", "Polling", "FetchingResults"}

\* Variant: the upload is placed before the authentication.
NextStepUploadFirst(st) ==
    CASE st = "Fetching"        -> "Uploading"
      [] st = "Uploading"       -> "Authenticating"
      [] st = "Authenticating"  -> "Polling"
      [] st = "Polling"         -> "FetchingResults"
      [] st = "FetchingResults" -> "Done"

\* The statement that follows a step of the handler.
NextStep(st) ==
    CASE st = "Fetching"        -> "Authenticating"
      [] st = "Authenticating"  -> "Uploading"
      [] st = "Uploading"       -> "Polling"
      [] st = "Polling"         -> "FetchingResults"
      [] st = "FetchingResults" -> "Done"

\* Variant: every state other than "Processing" leaves the loop.
IndexingDoneUnlessProcessing(s) == s # "Processing"

\* Variant: the state is compared with the wrong spelling, so no response
\* leaves the loop.
IndexingDoneWrongCase(s) == s = "processed"

\* The loop's exit test: resp.json().get("state") == "Processed".
IndexingDone(s) == s = "Processed"

VARIABLES
    pc,            \* per run: where the script run is
    url,           \* per run: youtube_url
    local_file,    \* per run: local_file
    token,         \* per run: token
    vid,           \* per run: vid
    insights,      \* per run: insights
    calls,         \* per run and step: invocations of the step's function
    notes,         \* per run: the st.spinner / st.success messages, in order
    sleeps,        \* per run: time.sleep(5) calls started
    lastState,     \* per run: state seen by the latest status check
    fetchArgs,     \* per run: arguments of the fetch_insights call
    uploadArgs,    \* per run: arguments of the upload_video_file call
    pollArgs,      \* per run: arguments of the wait_for_indexing call
    failedAt,      \* per run: the step whose exception ended the run
    urlError,      \* per run: st.error("Enter a valid YouTube URL.") shown
    cancelled,     \* per run: the user asked to stop during a sleep
    tokenCache,    \* st.cache of get_account_access_token
    uploadCache,   \* st.cache of upload_video_file
    insightsCache, \* st.cache of fetch_insights
    tokensIssued,  \* service: the run that requested each token
    jobs,          \* service: the run that uploaded each video
    items,         \* build_df: the section it is given
    key_name,      \* build_df: the name of the label field
    rows           \* build_df: the rows it returned, or the error it raised

runVars == <<url, local_file, token, vid, insights, sleeps, lastState,
             fetchArgs, uploadArgs, pollArgs, urlError, cancelled>>
cacheVars == <<tokenCache, uploadCache, insightsCache>>
serviceVars == <<tokensIssued, jobs>>
projVars == <<items, key_name, rows>>
vars == <<pc, calls, notes, failedAt, runVars, cacheVars, serviceVars, projVars>>

\* build_df has not been called.
NoRows == [called |-> FALSE, error |-> "", table |-> <<>>]

\* No button has been pressed and the memo tables are empty.
PipelineIdle ==
    /\ pc = [r \in Runs |-> "Idle"]
    /\ url = [r \in Runs |-> NoUrl]
    /\ local_file = [r \in Runs |-> NoFile]
    /\ token = [r \in Runs |-> NoToken]
    /\ vid = [r \in Runs |-> NoVideo]
    /\ insights = [r \in Runs |-> NoInsights]
    /\ calls = [r \in Runs |-> [s \in Steps |-> 0]]
    /\ notes = [r \in Runs |-> <<>>]
    /\ sleeps = [r \in Runs |-> 0]
    /\ lastState = [r \in Runs |-> "none"]
    /\ fetchArgs = [r \in Runs |-> <<NoVideo, NoToken>>]
    /\ uploadArgs = [r \in Runs |-> <<NoFile, NoToken>>]
    /\ pollArgs = [r \in Runs |-> <<NoVideo, NoToken>>]
    /\ failedAt = [r \in Runs |-> "none"]
    /\ urlError = [r \in Runs |-> FALSE]
    /\ cancelled = [r \in Runs |-> FALSE]
    /\ tokenCache = NoToken
    /\ uploadCache = {}
    /\ insightsCache = {}
    /\ tokensIssued = <<>>
    /\ jobs = <<>>

Init ==
    /\ PipelineIdle
    /\ items = <<>>
    /\ key_name = "text"
    /\ rows = NoRows

\* The controller state of the design that a position of the script is in.
CtlState(p) ==
    CASE p = "AuthRequest"    -> "Authenticating"
      [] p = "UploadRequest"  -> "Uploading"
      [] p = "Sleeping"       -> "Polling"
      [] p = "ResultsRequest" -> "FetchingResults"
      [] OTHER                -> p

\* st.success(...) after the with-block of the step the run is in.
SuccessNote(r) ==
    IF CtlState(pc[r]) \in Steps THEN << <<"success", CtlState(pc[r])>> >> ELSE <<>>

\* st.spinner(...) opening the with-block of step st.
SpinnerNote(st) ==
    IF st \in Steps THEN << <<"spinner", st>> >> ELSE <<>>

\* Variant: the with-block is left without a st.success message.
EnterSpinnerOnly(r, st) ==
    /\ pc' = [pc EXCEPT ![r] = st]
    /\ calls' = IF st \in Steps
                THEN [calls EXCEPT ![r][st] = @ + 1]
                ELSE calls
    /\ notes' = [notes EXCEPT ![r] = @ \o SpinnerNote(st)]

\* Control leaves the with-block of the current step (if any) and reaches
\* statement st of the handler: the success message of the finished step,
\* the spinner of st, and the call of st's function.
Enter(r, st) ==
    /\ pc' = [pc EXCEPT ![r] = st]
    /\ calls' = IF st \in Steps
                THEN [calls EXCEPT ![r][st] = @ + 1]
                ELSE calls
    /\ notes' = [notes EXCEPT ![r] = @ \o SuccessNote(r) \o SpinnerNote(st)]

\* Variant: the exception is swallowed and the handler goes on.
AbortContinues(r, st) ==
    /\ failedAt' = [failedAt EXCEPT ![r] = st]
    /\ Enter(r, NextStep(st))
    /\ UNCHANGED <<runVars, cacheVars, serviceVars>>

\* Variant: the failed step is invoked a second time before giving up.
AbortRetries(r, st) ==
    IF calls[r][st] < 2
    THEN /\ Enter(r, st)
         /\ UNCHANGED <<failedAt, runVars, cacheVars, serviceVars>>
    ELSE /\ pc' = [pc EXCEPT ![r] = "Failed"]
         /\ failedAt' = [failedAt EXCEPT ![r] = st]
         /\ UNCHANGED <<calls, notes, runVars, cacheVars, serviceVars>>

\* An exception raised in a step (raise_for_status, DownloadError, KeyError,
\* OSError) is not caught anywhere: the script run ends there.
Abort(r, st) ==
    /\ pc' = [pc EXCEPT ![r] = "Failed"]
    /\ failedAt' = [failedAt EXCEPT ![r] = st]
    /\ UNCHANGED <<calls, notes, runVars, cacheVars, serviceVars>>

\* st.cache: one memo table per decorated function, shared by every run of
\* the process and keyed by the call's arguments.  An entry is written when
\* the function returns; a call that raises writes nothing.
CacheHit(cache, key) == \E e \in cache : e.key = key
CacheGet(cache, key) == (CHOOSE e \in cache : e.key = key).value
CachePut(cache, key, value) ==
    {e \in cache : e.key # key} \cup {[key |-> key, value |-> value]}

\* Variant: the id of the video uploaded last, not the one this run holds.
FetchArgsLatestJob(r) == <<Len(jobs), token[r]>>

\* Variant: the upload is given the file of the download finished last in
\* the process (a module-level variable), not the file of this run.
UploadArgsSharedFile(r) ==
    <<IF \E q \in Runs \ {r} : local_file[q] # NoFile
      THEN local_file[CHOOSE q \in Runs \ {r} : local_file[q] # NoFile]
      ELSE local_file[r],
      token[r]>>

\* The arguments the handler passes to upload_video_file.
UploadArgs(r) == <<local_file[r], token[r]>>

\* The arguments the handler passes to wait_for_indexing; status_url is
\* built from them once, before the loop.
PollArgs(r) == <<vid[r], token[r]>>

\* The arguments the handler passes to fetch_insights.
FetchArgs(r) == <<vid[r], token[r]>>

\* ---------------------------------------------------------------- handler

\* Variant: the error is shown but the pipeline is not skipped (the else
\* is missing).
AnalyzeEmptyStartsPipeline(r) ==
    /\ pc[r] = "Idle"
    /\ ~urlError[r]
    /\ urlError' = [urlError EXCEPT ![r] = TRUE]
    /\ Enter(r, "Fetching")
    /\ UNCHANGED <<failedAt, url, local_file, token, vid, insights, sleeps,
                   lastState, fetchArgs, uploadArgs, pollArgs, cancelled,
                   cacheVars, serviceVars>>

\* The button is pressed with an empty text input.
AnalyzeEmpty(r) ==
    /\ pc[r] = "Idle"
    /\ ~urlError[r]
    /\ urlError' = [urlError EXCEPT ![r] = TRUE]
    /\ UNCHANGED <<pc, calls, notes, failedAt, url, local_file, token, vid, insights,
                   sleeps, lastState, fetchArgs, uploadArgs, pollArgs, cancelled,
                   cacheVars, serviceVars>>

\* The button is pressed with a URL: download_youtube_video is called.
Analyze(r, u) ==
    /\ pc[r] = "Idle"
    /\ u # NoUrl
    /\ url' = [url EXCEPT ![r] = u]
    /\ urlError' = [urlError EXCEPT ![r] = FALSE]
    /\ Enter(r, "Fetching")
    /\ UNCHANGED <<failedAt, local_file, token, vid, insights, sleeps,
                   lastState, fetchArgs, uploadArgs, pollArgs, cancelled, cacheVars,
                   serviceVars>>

\* download_youtube_video returns the prepared file name.
DownloadReturn(r) ==
    /\ pc[r] = "Fetching"
    /\ local_file' = [local_file EXCEPT ![r] = PrepareFilename(url[r])]
    /\ Enter(r, NextStep("Fetching"))
    /\ UNCHANGED <<failedAt, url, token, vid, insights, sleeps, lastState, fetchArgs, uploadArgs, pollArgs, urlError, cancelled, cacheVars,
                   serviceVars>>

DownloadFail(r) ==
    /\ pc[r] = "Fetching"
    /\ Abort(r, "Fetching")

\* get_account_access_token(): the memo table is consulted first.
AuthLookup(r) ==
    /\ pc[r] = "Authenticating"
    /\ UNCHANGED <<failedAt, url, local_file, vid, insights, sleeps,
                   lastState, fetchArgs, pollArgs, urlError, cancelled,
                   cacheVars, serviceVars>>
    /\ IF tokenCache # NoToken
       THEN /\ token' = [token EXCEPT ![r] = tokenCache]
            /\ Enter(r, NextStep("Authenticating"))
            /\ uploadArgs' = [uploadArgs EXCEPT ![r] = UploadArgs(r)']
       ELSE /\ pc' = [pc EXCEPT ![r] = "AuthRequest"]
            /\ UNCHANGED <<token, calls, notes, uploadArgs>>

\* The token endpoint answers: a fresh token, memoised and returned.
AuthResponse(r) ==
    /\ pc[r] = "AuthRequest"
    /\ tokensIssued' = Append(tokensIssued, r)
    /\ tokenCache' = Len(tokensIssued) + 1
    /\ token' = [token EXCEPT ![r] = Len(tokensIssued) + 1]
    /\ Enter(r, NextStep("Authenticating"))
    /\ UNCHANGED <<failedAt, url, local_file, vid, insights, sleeps,
                   lastState, fetchArgs, pollArgs, urlError, cancelled,
                   uploadCache, insightsCache, jobs>>
    /\ uploadArgs' = [uploadArgs EXCEPT ![r] = UploadArgs(r)']

AuthFail(r) ==
    /\ pc[r] = "AuthRequest"
    /\ Abort(r, "Authenticating")

\* upload_video_file(local_file, token): the memo table is consulted first.
UploadLookup(r) ==
    /\ pc[r] = "Uploading"
    /\ UNCHANGED <<failedAt, url, local_file, token, insights, sleeps,
                   lastState, fetchArgs, uploadArgs, urlError, cancelled,
                   cacheVars, serviceVars>>
    /\ IF CacheHit(uploadCache, uploadArgs[r])
       THEN /\ vid' = [vid EXCEPT ![r] = CacheGet(uploadCache, uploadArgs[r])]
            /\ Enter(r, NextStep("Uploading"))
            /\ pollArgs' = [pollArgs EXCEPT ![r] = PollArgs(r)']
       ELSE /\ pc' = [pc EXCEPT ![r] = "UploadRequest"]
            /\ UNCHANGED <<vid, calls, notes, pollArgs>>

\* The service stores the file as a new video and answers with its id.
UploadResponse(r) ==
    /\ pc[r] = "UploadRequest"
    /\ jobs' = Append(jobs, r)
    /\ uploadCache' = CachePut(uploadCache, uploadArgs[r], Len(jobs) + 1)
    /\ vid' = [vid EXCEPT ![r] = Len(jobs) + 1]
    /\ Enter(r, NextStep("Uploading"))
    /\ UNCHANGED <<failedAt, url, local_file, token, insights, sleeps,
                   lastState, fetchArgs, uploadArgs, urlError, cancelled,
                   tokenCache, insightsCache, tokensIssued>>
    /\ pollArgs' = [pollArgs EXCEPT ![r] = PollArgs(r)']

UploadFail(r) ==
    /\ pc[r] = "UploadRequest"
    /\ Abort(r, "Uploading")

\* Variant: the state is read with resp.json()["state"], so a response
\* without the field raises KeyError.
StatusResponseStrict(r, s) ==
    /\ pc[r] = "Polling"
    /\ lastState' = [lastState EXCEPT ![r] = s]
    /\ IF s = NoState
       THEN /\ pc' = [pc EXCEPT ![r] = "Failed"]
            /\ failedAt' = [failedAt EXCEPT ![r] = "Polling"]
            /\ UNCHANGED <<calls, notes, fetchArgs, sleeps>>
       ELSE /\ IF IndexingDone(s)
               THEN /\ Enter(r, NextStep("Polling"))
                    /\ fetchArgs' = [fetchArgs EXCEPT ![r] = FetchArgs(r)]
                    /\ UNCHANGED sleeps
               ELSE /\ pc' = [pc EXCEPT ![r] = "Sleeping"]
                    /\ sleeps' = [sleeps EXCEPT ![r] = @ + 1]
                    /\ UNCHANGED <<calls, notes, fetchArgs>>
            /\ UNCHANGED failedAt
    /\ UNCHANGED <<uploadArgs, pollArgs, url, local_file, token, vid, insights,
                   urlError, cancelled, cacheVars, serviceVars>>

\* Variant: a state other than "Processed" is followed by the next index
\* request at once, without time.sleep.
StatusResponseBusy(r, s) ==
    /\ pc[r] = "Polling"
    /\ lastState' = [lastState EXCEPT ![r] = s]
    /\ IF IndexingDone(s)
       THEN /\ Enter(r, NextStep("Polling"))
            /\ fetchArgs' = [fetchArgs EXCEPT ![r] = FetchArgs(r)]
       ELSE /\ calls[r]["Polling"] < MaxPolls
            /\ calls' = [calls EXCEPT ![r]["Polling"] = @ + 1]
            /\ UNCHANGED <<pc, notes, fetchArgs>>
    /\ UNCHANGED <<sleeps, uploadArgs, pollArgs, failedAt, url, local_file,
                   token, vid, insights, urlError, cancelled, cacheVars,
                   serviceVars>>

\* wait_for_indexing: the index request answers with state s (or without a
\* state field).  "Processed" leaves the loop and the handler goes on to
\* call fetch_insights; anything else sleeps.
StatusResponse(r, s) ==
    /\ pc[r] = "Polling"
    /\ lastState' = [lastState EXCEPT ![r] = s]
    /\ IF IndexingDone(s)
       THEN /\ Enter(r, NextStep("Polling"))
            /\ fetchArgs' = [fetchArgs EXCEPT ![r] = FetchArgs(r)]
            /\ UNCHANGED sleeps
       ELSE /\ pc' = [pc EXCEPT ![r] = "Sleeping"]
            /\ sleeps' = [sleeps EXCEPT ![r] = @ + 1]
            /\ UNCHANGED <<calls, notes, fetchArgs>>
    /\ UNCHANGED <<uploadArgs, pollArgs, failedAt, url, local_file, token, vid, insights, urlError,
                   cancelled, cacheVars, serviceVars>>

\* resp.raise_for_status() raises inside the loop.
StatusFail(r) ==
    /\ pc[r] = "Polling"
    /\ Abort(r, "Polling")

\* Variant: the next index request is issued on a timer, whether or not
\* the previous one has been answered.
WakeEarly(r) ==
    /\ pc[r] \in {"Sleeping", "Polling"}
    /\ calls[r]["Polling"] < MaxPolls
    /\ pc' = [pc EXCEPT ![r] = "Polling"]
    /\ calls' = [calls EXCEPT ![r]["Polling"] = @ + 1]
    /\ UNCHANGED <<notes, failedAt, runVars, cacheVars, serviceVars>>

\* time.sleep(5) returns and the loop issues the next index request.
Wake(r) ==
    /\ pc[r] = "Sleeping"
    /\ calls[r]["Polling"] < MaxPolls
    /\ pc' = [pc EXCEPT ![r] = "Polling"]
    /\ calls' = [calls EXCEPT ![r]["Polling"] = @ + 1]
    /\ UNCHANGED <<notes, failedAt, runVars, cacheVars, serviceVars>>

\* The user asks the run to stop while it sleeps.  Nothing in the loop
\* reads the request.
Cancel(r) ==
    /\ pc[r] = "Sleeping"
    /\ ~cancelled[r]
    /\ cancelled' = [cancelled EXCEPT ![r] = TRUE]
    /\ UNCHANGED <<pc, calls, notes, failedAt, url, local_file, token, vid, insights,
                   sleeps, lastState, fetchArgs, uploadArgs, pollArgs, urlError,
                   cacheVars, serviceVars>>

\* fetch_insights(vid, token): the memo table is consulted first.
ResultsLookup(r) ==
    /\ pc[r] = "FetchingResults"
    /\ IF CacheHit(insightsCache, fetchArgs[r])
       THEN /\ insights' = [insights EXCEPT ![r] =
                              CacheGet(insightsCache, fetchArgs[r])]
            /\ Enter(r, NextStep("FetchingResults"))
       ELSE /\ pc' = [pc EXCEPT ![r] = "ResultsRequest"]
            /\ UNCHANGED <<insights, calls, notes>>
    /\ UNCHANGED <<failedAt, url, local_file, token, vid, sleeps, lastState, fetchArgs, uploadArgs, pollArgs, urlError, cancelled, cacheVars,
                   serviceVars>>

\* The service answers with the index of the video asked for.
ResultsResponse(r) ==
    /\ pc[r] = "ResultsRequest"
    /\ LET result == [job |-> fetchArgs[r][1], fetchedBy |-> r]
       IN  /\ insights' = [insights EXCEPT ![r] = result]
           /\ insightsCache' = CachePut(insightsCache, fetchArgs[r], result)
    /\ Enter(r, NextStep("FetchingResults"))
    /\ UNCHANGED <<failedAt, url, local_file, token, vid, sleeps, lastState, fetchArgs, uploadArgs, pollArgs, urlError, cancelled, tokenCache,
                   uploadCache, serviceVars>>

ResultsFail(r) ==
    /\ pc[r] = "ResultsRequest"
    /\ Abort(r, "FetchingResults")

Next ==
    /\ UNCHANGED projVars
    /\ \E r \in Runs :
        \/ AnalyzeEmpty(r)
        \/ \E u \in Urls : Analyze(r, u)
        \/ DownloadReturn(r)
        \/ DownloadFail(r)
        \/ AuthLookup(r)
        \/ AuthResponse(r)
        \/ AuthFail(r)
        \/ UploadLookup(r)
        \/ UploadResponse(r)
        \/ UploadFail(r)
        \/ \E s \in StatusValues : StatusResponse(r, s)
        \/ StatusFail(r)
        \/ Wake(r)
        \/ Cancel(r)
        \/ ResultsLookup(r)
        \/ ResultsResponse(r)
        \/ ResultsFail(r)

Spec == Init /\ [][Next]_vars

\* ------------------------------------------------------------- build_df

\* item.get(...) of a key the item does not have.
None == -1
\* build_df ends with the TypeError of round(None, 3).
TypeError == "TypeError"

\* Confidences, in ten-thousandths (8567 is 0.8567); none of them lies
\* halfway between two thousandths.
Confidences == {8560, 8567}

\* The first n time instances of an item: instance j spans 10j .. 10j + 5.
InstancesOf(n) == [j \in 1..n |-> [start |-> 10 * j, end |-> 10 * j + 5]]

\* The items a section may hold; a field that is None is missing.
ItemSet ==
    [text : {"a", "b"}, name : {"n"}, confidence : Confidences \cup {None},
     instances : {InstancesOf(n) : n \in 0..MaxInst}]

Sections == UNION {[1..n -> ItemSet] : n \in 0..MaxItems}

\* round(conf, 3) of a confidence in ten-thousandths, in ten-thousandths.
Round3(c) ==
    LET q == c \div 10
        d == c % 10
    IN  IF d > 5 THEN (q + 1) * 10
        ELSE IF d < 5 THEN q * 10
        ELSE (IF q % 2 = 0 THEN q ELSE q + 1) * 10

\* The inner loop: one row per instance of an item.
RECURSIVE InstRows(_, _, _)
InstRows(textInfo, conf, inst_list) ==
    IF inst_list = <<>> THEN <<>>
    ELSE << [Text |-> textInfo, Confidence |-> Round3(conf),
             Start |-> Head(inst_list).start, End |-> Head(inst_list).end] >>
         \o InstRows(textInfo, conf, Tail(inst_list))

\* The outer loop: the rows of the items, item after item.
RECURSIVE ItemRows(_, _)
ItemRows(its, key) ==
    IF its = <<>> THEN <<>>
    ELSE InstRows(Head(its)[key], Head(its).confidence, Head(its).instances)
         \o ItemRows(Tail(its), key)

\* Variant: only the first instance of each item is turned into a row.
build_df_first_instance(its, key) ==
    IF \E i \in 1..Len(its) :
           its[i].instances # <<>> /\ its[i].confidence = None
    THEN [called |-> TRUE, error |-> TypeError, table |-> <<>>]
    ELSE [called |-> TRUE, error |-> "",
          table |-> ItemRows([i \in 1..Len(its) |->
                     [its[i] EXCEPT !.instances =
                         IF @ = <<>> THEN <<>> ELSE <<Head(@)>>]], key)]

\* build_df(items, key_name): round(conf, 3) raises for an item that has an
\* instance and no confidence; otherwise the rows.
build_df(its, key) ==
    IF \E i \in 1..Len(its) :
           its[i].instances # <<>> /\ its[i].confidence = None
    THEN [called |-> TRUE, error |-> TypeError, table |-> <<>>]
    ELSE [called |-> TRUE, error |-> "", table |-> ItemRows(its, key)]

\* Any section and either label field may be given to build_df.
ProjInit ==
    /\ PipelineIdle
    /\ items \in Sections
    /\ key_name \in {"text", "name"}
    /\ rows = NoRows

BuildDf ==
    /\ ~rows.called
    /\ rows' = build_df(items, key_name)
    /\ UNCHANGED <<items, key_name, pc, calls, notes, failedAt, runVars,
                   cacheVars, serviceVars>>

ProjNext == BuildDf

ProjSpec == ProjInit /\ [][ProjNext]_vars

\* ------------------------------------------------------------- properties

CtlRank(c) ==
    CASE c = "Idle"            -> 0
      [] c = "Fetching"        -> 1
      [] c = "Authenticating"  -> 2
      [] c = "Uploading"       -> 3
      [] c = "Polling"         -> 4
      [] c = "FetchingResults" -> 5
      [] c = "Done"            -> 6
      [] c = "Failed"          -> 7

\* Seconds a run has spent in completed sleeps of its poll loop.
Elapsed(r) ==
    PollInterval * (IF pc[r] = "Sleeping" THEN sleeps[r] - 1 ELSE sleeps[r])

\* C1: polling ends within the timeout of its invocation: a run is never
\* still polling (a status check in flight, or asleep between two checks)
\* once more than the timeout has elapsed.  The timeout is taken to be one
\* polling interval.
C1_PollingEndsWithinTimeout ==
    \A r \in Runs :
        pc[r] \in {"Polling", "Sleeping"} => Elapsed(r) <= PollInterval

\* C2: a status check that observes Failed ends the run at once: the run
\* is failed, it neither sleeps nor checks again nor fetches results.
C2_FailedEndsPolling ==
    \A r \in Runs : lastState[r] = "Failed" => pc[r] = "Failed"

\* C3: a failure at any step aborts the run: the run is in Failed, no step
\* after the failing one has been invoked, and it holds no insights.
C3_FailureAbortsRun ==
    \A r \in Runs :
        failedAt[r] # "none" =>
            /\ pc[r] = "Failed"
            /\ insights[r] = NoInsights
            /\ \A s \in Steps :
                 CtlRank(s) > CtlRank(failedAt[r]) => calls[r][s] = 0

C3_Witness ==
    /\ failedAt[1] = "Fetching"
    /\ failedAt[2] = "Polling"
    /\ calls[2]["Polling"] = 2

\* C4: fetch_insights is invoked (and a result held) only by a run whose
\* latest status check returned Processed.
C4_FetchOnlyAfterProcessed ==
    \A r \in Runs :
        (\/ calls[r]["FetchingResults"] > 0
         \/ pc[r] \in {"FetchingResults", "ResultsRequest", "Done"}
         \/ insights[r] # NoInsights)
        => lastState[r] = "Processed"

C4_Witness ==
    \E r \in Runs :
        /\ calls[r]["FetchingResults"] = 1
        /\ lastState[r] = "Processed"
        /\ sleeps[r] >= 1

\* C5: the steps start in the order download, authenticate, upload, poll,
\* fetch results, each only after its predecessor completed successfully,
\* and the controller state only moves to the next state of
\* Idle -> Fetching -> Authenticating -> Uploading -> Polling ->
\* FetchingResults -> Done, or into Failed.
C5_PredecessorCompleted ==
    \A r \in Runs :
        /\ calls[r]["Authenticating"] > 0 => local_file[r] # NoFile
        /\ calls[r]["Uploading"] > 0 => token[r] # NoToken
        /\ calls[r]["Polling"] > 0 => vid[r] # NoVideo
        /\ calls[r]["FetchingResults"] > 0 => lastState[r] = "Processed"

C5_ForwardStep ==
    \A r \in Runs :
        CtlState(pc'[r]) # CtlState(pc[r]) =>
            \/ CtlRank(CtlState(pc'[r])) = CtlRank(CtlState(pc[r])) + 1
            \/ /\ pc'[r] = "Failed"
               /\ pc[r] # "Done"

C5_StrictSequence == [](C5_PredecessorCompleted) /\ [][C5_ForwardStep]_vars

C5_Witness ==
    \E r \in Runs :
        /\ pc[r] = "Done"
        /\ \A s \in Steps : calls[r][s] >= 1

\* C6: when the k-th status check of a run is the first to return
\* Processed, the run has made exactly k status calls (one per earlier
\* response, each followed by one sleep, and none afterwards), and
\* fetch_insights has been invoked exactly once, with the video id and the
\* token the run holds from its upload and authenticate steps.
C6_ExactlyKStatusCalls ==
    \A r \in Runs :
        lastState[r] = "Processed" =>
            /\ calls[r]["Polling"] = sleeps[r] + 1
            /\ calls[r]["FetchingResults"] = 1
            /\ fetchArgs[r] = <<vid[r], token[r]>>
            /\ vid[r] \in 1..Len(jobs)
            /\ token[r] \in 1..Len(tokensIssued)

C6_Witness ==
    \E r \in Runs :
        /\ pc[r] = "Done"
        /\ sleeps[r] = 2
        /\ calls[r]["Polling"] = 3
        /\ calls[r]["FetchingResults"] = 1
        /\ fetchArgs[r] = <<vid[r], token[r]>>

\* C7: a run consumes no value obtained by a run for another source
\* request: its token, its video id and its insights each come from a
\* request made by itself (or by a run for the same URL).
C7_RunsIndependent ==
    \A r \in Runs :
        /\ token[r] # NoToken =>
             \/ tokensIssued[token[r]] = r
             \/ url[tokensIssued[token[r]]] = url[r]
        /\ vid[r] # NoVideo =>
             \/ jobs[vid[r]] = r
             \/ url[jobs[vid[r]]] = url[r]
        /\ insights[r] # NoInsights =>
             \/ insights[r].fetchedBy = r
             \/ url[insights[r].fetchedBy] = url[r]

\* C8: two runs whose source videos differ never hold the same video id.
C8_JobIdNotShared ==
    \A r1, r2 \in Runs :
        (/\ url[r1] # url[r2]
         /\ vid[r1] # NoVideo
         /\ vid[r2] # NoVideo)
        => vid[r1] # vid[r2]

\* C9: within a run each of download, authenticate, upload and fetch
\* results is invoked at most once, and a run that is Done has invoked
\* each exactly once and holds one video id and one insights result.
C9_NoRetry ==
    \A r \in Runs :
        /\ \A s \in Steps \ {"Polling"} : calls[r][s] <= 1
        /\ pc[r] = "Done" =>
             /\ \A s \in Steps \ {"Polling"} : calls[r][s] = 1
             /\ vid[r] # NoVideo
             /\ insights[r] # NoInsights
             /\ insights[r].job = vid[r]

C9_Witness ==
    /\ pc[1] = "Done"
    /\ pc[2] = "Failed"
    /\ failedAt[2] = "Uploading"
    /\ calls[2]["Uploading"] = 1

\* C10: once a run is cancelled during a sleep it issues no further status
\* check: it is still in that sleep, or it has failed.
C10_CancelStopsPolling ==
    \A r \in Runs : cancelled[r] => pc[r] \in {"Sleeping", "Failed"}

\* C11: get_account_access_token performs no caching: the token a run holds
\* after its call is the token of a response to a request of that call.
C11_AuthenticateUncached ==
    \A r \in Runs : token[r] # NoToken => tokensIssued[token[r]] = r

\* The step of the handler with rank i, and the number of steps a run has
\* started.
StepAt(i) == CHOOSE s \in Steps : CtlRank(s) = i
StepsStarted(r) == Cardinality({s \in Steps : calls[r][s] > 0})

\* C12 (as stated): one progress notification per step, so a run has
\* emitted as many notifications as it has started steps (five when Done).
C12_OneNotificationPerStep ==
    \A r \in Runs : Len(notes[r]) = StepsStarted(r)

\* C12 (amended): every step is announced by one spinner message before it
\* starts and, once it has completed successfully, by one success message
\* before the next step starts: ten messages in a Done run; a failed step
\* has no success message and nothing follows it.
C12_SpinnerBeforeSuccessAfter ==
    \A r \in Runs :
        LET n == StepsStarted(r) IN
        /\ \A s \in Steps : calls[r][s] > 0 <=> CtlRank(s) <= n
        /\ Len(notes[r]) = IF pc[r] = "Done" THEN 2 * n
                           ELSE IF n = 0 THEN 0 ELSE 2 * n - 1
        /\ \A k \in 1..Len(notes[r]) :
             notes[r][k] = IF k % 2 = 1
                           THEN <<"spinner", StepAt((k + 1) \div 2)>>
                           ELSE <<"success", StepAt(k \div 2)>>

C12_Witness ==
    /\ pc[1] = "Done"
    /\ Len(notes[1]) = 10
    /\ pc[2] = "Failed"
    /\ failedAt[2] = "Uploading"
    /\ Len(notes[2]) = 5

\* C13: a status response without a state field is not fatal and does not
\* end the poll: the run sleeps one interval (it neither fails nor goes on
\* to fetch results), and when the sleep ends it issues another check.
C13_NoStateSleeps ==
    \A r \in Runs :
        (lastState[r] = NoState /\ pc[r] # "Failed") =>
            /\ pc[r] \in {"Sleeping", "Polling"}
            /\ calls[r]["FetchingResults"] = 0

C13_NoStateStep ==
    \A r \in Runs :
        /\ (lastState'[r] = NoState /\ lastState[r] # NoState) =>
             /\ pc'[r] = "Sleeping"
             /\ sleeps'[r] = sleeps[r] + 1
             /\ failedAt'[r] = "none"
        /\ (pc[r] = "Sleeping" /\ lastState[r] = NoState
                               /\ pc'[r] # "Sleeping") =>
             /\ pc'[r] = "Polling"
             /\ calls'[r]["Polling"] = calls[r]["Polling"] + 1

C13_MissingStateIsProcessing == [](C13_NoStateSleeps) /\ [][C13_NoStateStep]_vars

C13_Witness ==
    \E r \in Runs :
        /\ lastState[r] = NoState
        /\ pc[r] = "Polling"
        /\ calls[r]["Polling"] = 2
        /\ sleeps[r] = 1

\* C14: two runs for different source URLs never download to the same
\* local file path.
C14_NoPathCollision ==
    \A r1, r2 \in Runs :
        (/\ url[r1] # url[r2]
         /\ local_file[r1] # NoFile
         /\ local_file[r2] # NoFile)
        => local_file[r1] # local_file[r2]

\* Position of a state in Uploaded -> Processing -> {Processed | Failed};
\* a response without a state counts as Processing.
StateRank(s) ==
    CASE s = "none"       -> 0
      [] s = "Uploaded"   -> 1
      [] s = "Processing" -> 2
      [] s = NoState      -> 2
      [] s = "Processed"  -> 3
      [] s = "Failed"     -> 3

InFlight(r) ==
    calls[r]["Polling"] - sleeps[r]
        - (IF lastState[r] = "Processed" THEN 1 ELSE 0)
        - (IF failedAt[r] = "Polling" THEN 1 ELSE 0)

\* C16: a run never has two status checks in flight: at most one is
\* unanswered, and exactly while the run waits for the answer.
C16_OneCheckInFlight ==
    \A r \in Runs :
        /\ InFlight(r) \in {0, 1}
        /\ InFlight(r) = 1 <=> pc[r] = "Polling"

C16_Witness ==
    \E r \in Runs :
        /\ pc[r] = "Polling"
        /\ calls[r]["Polling"] = 3
        /\ InFlight(r) = 1

\* C18: between two consecutive status checks of a run exactly one sleep
\* takes place, and no sleep follows the check that observes Processed: a
\* run that has issued k checks has started k sleeps while it sleeps after
\* the k-th, and k - 1 otherwise.
C18_OneSleepBetweenChecks ==
    \A r \in Runs :
        /\ sleeps[r] = IF calls[r]["Polling"] = 0 THEN 0
                       ELSE calls[r]["Polling"]
                              - (IF pc[r] = "Sleeping" THEN 0 ELSE 1)
        /\ lastState[r] = "Processed" => pc[r] # "Sleeping"

C18_Witness ==
    \E r \in Runs :
        /\ pc[r] = "FetchingResults"
        /\ lastState[r] = "Processed"
        /\ calls[r]["Polling"] = 3
        /\ sleeps[r] = 2

\* C19: data flows forward unchanged within a run: upload is called with
\* the file the download of this run returned and the token authenticate
\* returned; wait_for_indexing and fetch_insights are called with the video
\* id upload returned and that same token; and a value, once returned, is
\* never replaced.
C19_ArgsAreOwnResults ==
    \A r \in Runs :
        /\ calls[r]["Uploading"] > 0 =>
             /\ local_file[r] = PrepareFilename(url[r])
             /\ token[r] \in 1..Len(tokensIssued)
             /\ uploadArgs[r] = <<local_file[r], token[r]>>
        /\ calls[r]["Polling"] > 0 =>
             /\ vid[r] \in 1..Len(jobs)
             /\ pollArgs[r] = <<vid[r], token[r]>>
        /\ calls[r]["FetchingResults"] > 0 =>
             fetchArgs[r] = <<vid[r], token[r]>>

C19_ValuesKept ==
    \A r \in Runs :
        /\ local_file[r] # NoFile => local_file'[r] = local_file[r]
        /\ token[r] # NoToken => token'[r] = token[r]
        /\ vid[r] # NoVideo => vid'[r] = vid[r]
        /\ calls[r]["Polling"] > 0 => pollArgs'[r] = pollArgs[r]

C19_DataFlowsForward == [](C19_ArgsAreOwnResults) /\ [][C19_ValuesKept]_vars

C19_Witness ==
    /\ pc[1] = "Done"
    /\ pc[2] = "Done"
    /\ url[1] = "urlA"
    /\ url[2] = "urlC"
    /\ uploadArgs[1][1] # uploadArgs[2][1]
    /\ fetchArgs[1][1] # fetchArgs[2][1]

\* C20: pressing the button with an empty URL starts nothing: the run stays
\* idle with no function invoked and no progress message, the error is
\* shown; and no run is ever under way with an empty URL.
C20_EmptyUrlStartsNothing ==
    \A r \in Runs :
        /\ urlError[r] =>
             /\ pc[r] = "Idle"
             /\ \A s \in Steps : calls[r][s] = 0
             /\ notes[r] = <<>>
        /\ pc[r] # "Idle" => url[r] # NoUrl

C20_Witness ==
    /\ urlError[1]
    /\ pc[1] = "Idle"
    /\ pc[2] = "Done"

\* Instances of the first n items of a section.
RECURSIVE InstCount(_, _)
InstCount(its, n) ==
    IF n = 0 THEN 0 ELSE Len(its[n].instances) + InstCount(its, n - 1)

\* Row Offset + j is the row of instance j of item i: it has the item's
\* label, the confidence conf and the instance's start and end.
RowOf(i, j, conf) ==
    LET row == rows.table[InstCount(items, i - 1) + j] IN
    /\ row.Text = items[i][key_name]
    /\ row.Confidence = conf
    /\ row.Start = items[i].instances[j].start
    /\ row.End = items[i].instances[j].end

\* C17 (as stated): for a section whose items all have a confidence,
\* build_df yields one row per (item, instance) pair, in item order then
\* instance order, each with the item's label and confidence and the
\* instance's start and end.
C17_RowsCarryItemConfidence ==
    (rows.called /\ \A i \in 1..Len(items) : items[i].confidence # None) =>
        /\ rows.error = ""
        /\ Len(rows.table) = InstCount(items, Len(items))
        /\ \A i \in 1..Len(items) :
             \A j \in 1..Len(items[i].instances) :
                 RowOf(i, j, items[i].confidence)

\* C17 (amended): the rows carry the item's confidence rounded to three
\* decimals (the nearest thousandth); and build_df raises TypeError exactly
\* when an item with an instance has no confidence, while an item with no
\* instance yields no row and no error.
C17_RowsPerInstance ==
    rows.called =>
        IF \E i \in 1..Len(items) :
               items[i].instances # <<>> /\ items[i].confidence = None
        THEN rows.error = TypeError
        ELSE /\ rows.error = ""
             /\ Len(rows.table) = InstCount(items, Len(items))
             /\ \A i \in 1..Len(items) :
                  \A j \in 1..Len(items[i].instances) :
                      \E c \in 0..10000 :
                          /\ c % 10 = 0
                          /\ c - items[i].confidence \in -4..4
                          /\ RowOf(i, j, c)

C17_Witness ==
    /\ rows.called
    /\ rows.error = ""
    /\ Len(items) = 2
    /\ Len(items[1].instances) = 2
    /\ items[1].confidence = 8567
    /\ items[2].instances = <<>>
    /\ items[2].confidence = None
    /\ Len(rows.table) = 2
    /\ rows.table[1].Confidence = 8570
    /\ rows.table[1].Start # rows.table[2].Start

====
